---- MODULE Spec2Model ----
(***************************************************************************)
(* Model of the retrieval-and-generation pipeline of the support co-pilot: *)
(*   app/utils/response_generator.py  ResponseGenerator                    *)
(*   app/utils/rag_engine.py          RAGEngine                            *)
(* Text is modelled as sequences of tokens, a similarity score as an       *)
(* integer number of thousandths (0.5 is 500), a dict as a record whose    *)
(* DOMAIN is the set of keys it holds, and None as the empty sequence.     *)
(***************************************************************************)
EXTENDS Integers, Sequences, FiniteSets, TLC

(* ------------------------------ bounds -------------------------------- *)

\* longest context list handed to the generator
MaxCtx == 2

\* number of provider calls whose outcome is fixed in advance
ScriptLen == 2

(* ------------------------- ResponseGenerator -------------------------- *)

VARIABLES
    pc,              \* which call is in progress, and where it is
    customer_issue,  \* argument
    context_chunks,  \* argument
    tone,            \* argument
    script,          \* outcome of the provider's 1st, 2nd, ... call
    attempt,         \* loop variable of "for attempt in range(max_retries)"
    last_error,      \* local last_error (<<>> is None)
    attempts,        \* generate_response invocations made by this call
    calls,           \* chat.completions.create calls made by this call
    waits,           \* the time.sleep arguments of this call, in order
    result,          \* <<>> until the call returns, then <<returned dict>>
    raised           \* TRUE when the call ended by raising to its caller

gen_vars == <<customer_issue, context_chunks, tone, script, attempt,
              last_error, attempts, calls, waits, result, raised>>

(* ----------------------------- RAGEngine ------------------------------ *)

VARIABLES
    query,               \* argument of search_similar
    top_k,               \* argument of search_similar
    embed_outcome,       \* what embeddings.create does when it is called
    index_response,      \* what index.query does when it is called
    search_result,       \* the list search_similar returned
    search_raised,       \* TRUE when search_similar raised to its caller
    get_embedding_calls, \* get_embedding invocations made by the call
    embed_requests,      \* embeddings.create calls made by the call
    index_queries        \* index.query calls made by the call

search_vars == <<query, top_k, embed_outcome, index_response, search_result,
                 search_raised, get_embedding_calls, embed_requests, index_queries>>

(* --------------------------- analyze_tone ----------------------------- *)

VARIABLES
    customer_message,  \* argument of analyze_tone
    tone_answer,       \* what the provider does with the request
    detected_tone,     \* the string analyze_tone returned
    tone_raised        \* TRUE when analyze_tone raised to its caller

tone_vars == <<customer_message, tone_answer, detected_tone, tone_raised>>

(* -------------------------- index_documents --------------------------- *)

VARIABLES
    doc,                 \* the file at file_path: whether it exists, whether
                         \* it is blank, how many chunks its text yields
    embed_fail_at,       \* position of the first chunk whose embedding request
                         \* fails (0: none fails)
    clock,               \* what int(time.time()) returns for each chunk
    fail_batches,        \* numbers of the batches whose batch upsert raises
    bad_records,         \* chunk_ids whose single-record upsert raises
    vectors,             \* the local list vectors
    batch_i,             \* loop variable of "for i in range(0, len(vectors), batch_size)"
    successful_uploads,  \* the local counter
    batch_log,           \* the upsert calls made, grouped by batch
    store,               \* ids of the records the vector index holds
    chunk_embeddings,    \* get_embedding calls made by the run
    index_result,        \* <<>> until the call returns, then <<returned int>>
    index_error,         \* <<>>, or <<the exception raised to the caller>>
    run,                 \* 1 in the first index_documents call on the source,
                         \* 2 in the call that follows it
    first_ids,           \* the ids the first call generated
    first_store          \* what the index held when the second call began

\* what is kept of the first call during the second
rerun_vars == <<run, first_ids, first_store>>

index_vars == <<doc, embed_fail_at, clock, fail_batches, bad_records, vectors,
                batch_i, successful_uploads, batch_log, store, chunk_embeddings,
                index_result, index_error,
                run, first_ids, first_store>>

(* -------------------------- smart_chunk_text -------------------------- *)

VARIABLES
    chunk_text,   \* argument text of smart_chunk_text
    chunk_size,   \* argument chunk_size
    candidates,   \* the local list chunks before the length filter
    chunks_out    \* the list smart_chunk_text returned

chunk_vars == <<chunk_text, chunk_size, candidates, chunks_out>>

vars == <<pc, gen_vars, search_vars, tone_vars, index_vars, chunk_vars>>

\* self.model
model == "gpt-4"

max_retries == 2

\* the issue and tone of a request: the default tone with an empty issue,
\* and a detected tone with an issue text
Requests ==
    { [issue |-> <<>>, tone |-> "empathetic"],
      [issue |-> <<"login", "fails">>, tone |-> "urgent"] }

\* context chunks: two as search_similar builds them, one without the
\* 'text' key, one without the 'chunk_id' key
Chunks ==
    { [text |-> "reset", score |-> 912, chunk_id |-> 3, source |-> "kb"],
      [text |-> "billing", score |-> 507, chunk_id |-> 7, source |-> "kb"],
      [score |-> 651, chunk_id |-> 1, source |-> "kb"],
      [text |-> "orphan", score |-> 804, source |-> "kb"] }

Contexts == UNION { [1..n -> Chunks] : n \in 0..MaxCtx }

\* what one call of chat.completions.create does: it answers, or raises an
\* exception of the named class
ProviderErrors ==
    {"RateLimitError", "APIConnectionError", "AuthenticationError", "ValueError"}

Outcomes == {"ok"} \cup ProviderErrors

Scripts == [1..ScriptLen -> Outcomes]

\* the classes an exception of class cls is an instance of
Ancestors(cls) ==
    CASE cls = "RateLimitError" ->
            {"RateLimitError", "APIStatusError", "APIError", "Exception"}
      [] cls = "AuthenticationError" ->
            {"AuthenticationError", "APIStatusError", "APIError", "Exception"}
      [] cls = "APIConnectionError" ->
            {"APIConnectionError", "APIError", "Exception"}
      [] OTHER -> {cls, "Exception"}

\* '{score:.2f}': thousandths rounded to hundredths
Fmt2(score) == (score + 5) \div 10

\* the sources listed last chunk first
SourcesReversed(chunks) ==
    [i \in 1..Len(chunks) |->
        <<"Knowledge base chunk", chunks[Len(chunks) + 1 - i].chunk_id,
          "score", Fmt2(chunks[Len(chunks) + 1 - i].score)>>]

\* the sources list comprehension
Sources(chunks) ==
    [i \in 1..Len(chunks) |->
        <<"Knowledge base chunk", chunks[i].chunk_id, "score", Fmt2(chunks[i].score)>>]

\* the body of generate_response's try block: what it returns, or the
\* class and text of the exception it raises, and whether the provider
\* was called
GenerateBody(chunks, outcome) ==
    IF \E i \in 1..Len(chunks) : "text" \notin DOMAIN chunks[i]
    THEN [ok |-> FALSE, cls |-> "KeyError", text |-> <<"text">>, called |-> FALSE]
    ELSE IF outcome # "ok"
    THEN [ok |-> FALSE, cls |-> outcome, text |-> <<outcome>>, called |-> TRUE]
    ELSE IF \E i \in 1..Len(chunks) : {"chunk_id", "score"} \ DOMAIN chunks[i] # {}
    THEN [ok |-> FALSE, cls |-> "KeyError", text |-> <<"chunk_id">>, called |-> TRUE]
    ELSE [ok |-> TRUE, called |-> TRUE,
          value |-> [response |-> <<"generated_text">>,
                     sources |-> Sources(chunks),
                     context_used |-> Len(chunks),
                     model_used |-> model]]

\* generate_response: its except clauses turn every exception of the body
\* into a plain Exception carrying a prefixed message
generate_response(chunks, outcome) ==
    LET r == GenerateBody(chunks, outcome) IN
    IF r.ok THEN r
    ELSE IF "APIError" \in Ancestors(r.cls)
    THEN [ok |-> FALSE, cls |-> "Exception", called |-> r.called,
          text |-> <<"OpenAI API error">> \o r.text]
    ELSE [ok |-> FALSE, cls |-> "Exception", called |-> r.called,
          text |-> <<"Response generation failed">> \o r.text]

\* the except clauses without the final "except Exception"
ExceptClauseNoCatchAll(cls) ==
    IF "RateLimitError" \in Ancestors(cls) THEN "rate"
    ELSE IF "APIConnectionError" \in Ancestors(cls) THEN "conn"
    ELSE "none"

\* the except clause of generate_response_with_fallback that handles an
\* exception of class cls: the first one, in order, whose class matches
ExceptClause(cls) ==
    IF "RateLimitError" \in Ancestors(cls) THEN "rate"
    ELSE IF "APIConnectionError" \in Ancestors(cls) THEN "conn"
    ELSE IF "Exception" \in Ancestors(cls) THEN "other"
    ELSE "none"

\* the prefix the clause puts before str(e) in last_error
ErrorPrefix(clause) ==
    CASE clause = "rate" -> "OpenAI rate limit exceeded"
      [] clause = "conn" -> "OpenAI connection error"
      [] OTHER -> "Unexpected error"

\* 2 ** attempt
RECURSIVE Pow2(_)
Pow2(n) == IF n = 0 THEN 1 ELSE 2 * Pow2(n - 1)

\* the time.sleep calls of the clause, appended to those made so far
SleepAfter(clause, att, slept) ==
    IF clause = "rate" /\ att < max_retries - 1 THEN Append(slept, Pow2(att))
    ELSE IF clause = "conn" /\ att < max_retries - 1 THEN Append(slept, 1)
    ELSE slept

\* a loop over range(max_retries - 2)
LoopRunsTooFew(att) == att < max_retries - 2

\* for attempt in range(max_retries): whether the body runs for att
LoopRuns(att) == att < max_retries

\* the last clause without its break
BreaksNever(clause) == FALSE

\* whether the clause ends the loop with break
Breaks(clause) == clause = "other"

\* the fallback dict with the apology alone
FallbackResultNoCause(err) ==
    [response |-> <<"I apologize">>,
     sources |-> <<>>,
     context_used |-> 0,
     model_used |-> "fallback"]

\* the dict returned after the loop
FallbackResult(err) ==
    [response |-> <<"I apologize", "Error">> \o (IF err = <<>> THEN <<"None">> ELSE err),
     sources |-> <<>>,
     context_used |-> 0,
     model_used |-> "fallback"]

(* -------------------------- search_similar ---------------------------- *)

\* longest query string
MaxQueryLen == 2

\* largest top_k
MaxTopK == 2

\* match.score > 0.5
RelevanceThreshold == 500

Whitespace == {" ", "\n"}

Chars == {"a"} \cup Whitespace

Queries == UNION { [1..n -> Chars] : n \in 0..MaxQueryLen }

RECURSIVE LStrip(_)
LStrip(s) ==
    IF s # <<>> /\ Head(s) \in Whitespace THEN LStrip(Tail(s)) ELSE s

RECURSIVE RStrip(_)
RStrip(s) ==
    IF s # <<>> /\ s[Len(s)] \in Whitespace
    THEN RStrip(SubSeq(s, 1, Len(s) - 1)) ELSE s

\* str.strip()
Strip(s) == RStrip(LStrip(s))

\* text.replace("\n", " ")
ReplaceNewlines(s) == [i \in 1..Len(s) |-> IF s[i] = "\n" THEN " " ELSE s[i]]

EmbedOutcomes == {"ok", "fail"}

\* get_embedding: whether it returns a vector, and whether it called
\* embeddings.create on the way
get_embedding(text, outcome) ==
    LET clean_text == Strip(ReplaceNewlines(text)) IN
    IF clean_text = <<>> THEN [ok |-> FALSE, requested |-> FALSE]
    ELSE [ok |-> outcome = "ok", requested |-> TRUE]

\* the metadata a stored record can carry: as index_documents writes it,
\* and with one of the keys missing
Metadatas ==
    { [text |-> "t", chunk_id |-> 0, source |-> "kb"],
      [text |-> "t", chunk_id |-> 0],
      [chunk_id |-> 0, source |-> "kb"],
      [text |-> "t", source |-> "kb"] }

Scores == {200, 500, 501, 900}

Matches == [score : Scores, metadata : Metadatas]

\* the index answers with its nearest records, best first
IsDescending(ms) == \A i \in 1..(Len(ms) - 1) : ms[i].score >= ms[i + 1].score

\* what index.query(top_k=k) can do: raise, or answer with at most k matches
IndexResponses(k) ==
    {[ok |-> FALSE, matches |-> <<>>]} \cup
    { [ok |-> TRUE, matches |-> ms] :
        ms \in { m \in UNION { [1..n -> Matches] : n \in 0..k } : IsDescending(m) } }

\* the guard without "or not query.strip()"
IsBlankNoStrip(q) == q = <<>>

\* not query or not query.strip()
IsBlank(q) == q = <<>> \/ Strip(q) = <<>>

\* match.score >= 0.5
IsRelevantInclusive(m) == m.score >= RelevanceThreshold

\* match.score > 0.5
IsRelevant(m) == m.score > RelevanceThreshold

\* the keys the formatting reads with metadata[...]
IsWellFormed(m) == {"text", "chunk_id"} \subseteq DOMAIN m.metadata

\* the dict appended for a relevant match
FormatMatch(m) ==
    [text |-> m.metadata.text,
     score |-> m.score,
     chunk_id |-> m.metadata.chunk_id,
     source |-> IF "source" \in DOMAIN m.metadata THEN m.metadata.source ELSE "unknown"]

\* a loop that passes over a match lacking a key instead of failing
FormatResultsSkipMalformed(ms) ==
    LET kept == SelectSeq(ms, LAMBDA m : IsRelevant(m) /\ IsWellFormed(m)) IN
    [ok |-> TRUE, list |-> [i \in 1..Len(kept) |-> FormatMatch(kept[i])]]

\* the loop over results.matches: the list it builds, or a KeyError
FormatResults(ms) ==
    LET kept == SelectSeq(ms, IsRelevant) IN
    IF \E i \in 1..Len(kept) : ~IsWellFormed(kept[i])
    THEN [ok |-> FALSE, list |-> <<>>]
    ELSE [ok |-> TRUE, list |-> [i \in 1..Len(kept) |-> FormatMatch(kept[i])]]

\* an except clause that logs and raises again
OnSearchErrorReraise == [result |-> <<>>, raised |-> TRUE]

\* the except clause of search_similar: it logs and returns []
OnSearchError == [result |-> <<>>, raised |-> FALSE]

\* search_similar: the list it returns and the calls it made
search_similar(q, embed, ix) ==
    IF IsBlank(q)
    THEN [result |-> <<>>, raised |-> FALSE, get_embedding_calls |-> 0,
          embed_requests |-> 0, index_queries |-> 0]
    ELSE LET e == get_embedding(q, embed)
             n == IF e.requested THEN 1 ELSE 0
         IN  IF ~e.ok
             THEN [result |-> OnSearchError.result, raised |-> OnSearchError.raised,
                   get_embedding_calls |-> 1, embed_requests |-> n,
                   index_queries |-> 0]
             ELSE IF ~ix.ok
             THEN [result |-> OnSearchError.result, raised |-> OnSearchError.raised,
                   get_embedding_calls |-> 1, embed_requests |-> n,
                   index_queries |-> 1]
             ELSE LET f == FormatResults(ix.matches) IN
                  IF f.ok
                  THEN [result |-> f.list, raised |-> FALSE,
                        get_embedding_calls |-> 1, embed_requests |-> n,
                        index_queries |-> 1]
                  ELSE [result |-> OnSearchError.result,
                        raised |-> OnSearchError.raised,
                        get_embedding_calls |-> 1, embed_requests |-> n,
                        index_queries |-> 1]

(* --------------------------- analyze_tone ----------------------------- *)

\* longest provider answer, in tokens
MaxAnswerLen == 2

Messages == {<<>>, <<"where", "is", "my", "refund">>}

\* a provider answer is a string of words and whitespace
ToneWords == {"calm", "Calm", "URGENT", "frustrated", "confused", "neutral", "angry"}

ToneTokens == ToneWords \cup Whitespace

\* what chat.completions.create does: it raises, it answers with no
\* content, or it answers with a text
ToneAnswers ==
    {[kind |-> "raise", content |-> <<>>], [kind |-> "none", content |-> <<>>]} \cup
    { [kind |-> "text", content |-> c] :
        c \in UNION { [1..n -> ToneTokens] : n \in 0..MaxAnswerLen } }

\* str.lower() of one token
LowerToken(w) ==
    CASE w = "Calm" -> "calm"
      [] w = "URGENT" -> "urgent"
      [] OTHER -> w

\* content.strip().lower()
StripLower(content) ==
    LET t == Strip(content) IN [i \in 1..Len(t) |-> LowerToken(t[i])]

valid_tones ==
    {<<"frustrated">>, <<"urgent">>, <<"calm">>, <<"confused">>, <<"neutral">>}

\* the answer returned as it is
DetectedToneUnchecked(t) == t

\* tone if tone in valid_tones else 'neutral'
DetectedTone(t) == IF t \in valid_tones THEN t ELSE <<"neutral">>

\* analyze_tone: the string it returns, and whether it raises
analyze_tone(answer) ==
    IF answer.kind # "text"
    THEN [tone |-> <<"neutral">>, raised |-> FALSE]
    ELSE [tone |-> DetectedTone(StripLower(answer.content)), raised |-> FALSE]

(* -------------------------- index_documents --------------------------- *)

\* most chunks one document yields
MaxChunks == 250

batch_size == 100

\* chunk counts around the batch boundaries
ChunkCounts == {1, 12, batch_size, batch_size + 1, MaxChunks}

\* the file at file_path: absent, blank, without a chunk that passes the
\* length filter, or yielding n chunks
Documents ==
    { [exists |-> FALSE, blank |-> FALSE, n |-> 0],
      [exists |-> TRUE, blank |-> TRUE, n |-> 0],
      [exists |-> TRUE, blank |-> FALSE, n |-> 0] } \cup
    { [exists |-> TRUE, blank |-> FALSE, n |-> k] : k \in ChunkCounts }

\* the clock during a run: it stands still, or it changes once, forwards
\* or backwards, before the chunk numbered tick_at
Clocks ==
    { [before |-> 11, after |-> 11, tick_at |-> 0],
      [before |-> 1, after |-> 11, tick_at |-> 2],
      [before |-> 11, after |-> 1, tick_at |-> 2] }

\* int(time.time()) while chunk i is handled
ClockAt(c, i) == IF i < c.tick_at THEN c.before ELSE c.after

\* the batches that can exist
BatchNumbers == 1..((MaxChunks + batch_size - 1) \div batch_size)

\* the records the index refuses one by one
BadChoices == { {}, {0}, {150}, 100..199 }

\* str(n) for n >= 0, one character per element
RECURSIVE Digits(_)
Digits(n) ==
    IF n < 10 THEN <<ToString(n)>> ELSE Digits(n \div 10) \o <<ToString(n % 10)>>

\* f"chunk_{i}{ts}"
VectorIdNoSeparator(i, ts) == <<"chunk_">> \o Digits(i) \o Digits(ts)

\* f"chunk_{i}_{int(time.time())}"
VectorId(i, ts) == <<"chunk_">> \o Digits(i) \o <<"_">> \o Digits(ts)

\* the list vectors after the enumerate loop over n chunks
BuildVectors(n, c) ==
    [k \in 1..n |-> [id |-> VectorId(k - 1, ClockAt(c, k - 1)), chunk_id |-> k - 1]]

\* what reaches the caller of index_documents when its body raises: the
\* except clause raises a plain Exception with a prefixed message
IndexingFailure(cls, text) ==
    [cls |-> "Exception", text |-> <<"Document indexing failed">> \o text]

\* lines 104-122: the exception the checks before the embedding raise, if
\* any
SetupError(d) ==
    IF ~d.exists
    THEN <<[cls |-> "FileNotFoundError", text |-> <<"Knowledge base file not found">>]>>
    ELSE IF d.blank
    THEN <<[cls |-> "ValueError", text |-> <<"Knowledge base file is empty">>]>>
    ELSE IF d.n = 0
    THEN <<[cls |-> "ValueError",
            text |-> <<"No valid chunks created from the knowledge base">>]>>
    ELSE <<>>

\* an embedding loop that skips the chunk whose request failed
EmbedLoopSkipsFailure(n, fail_at) == [ok |-> TRUE, requests |-> n]

\* the enumerate loop: whether every get_embedding call returned, and how
\* many calls were made
EmbedLoop(n, fail_at) ==
    IF fail_at \in 1..n
    THEN [ok |-> FALSE, requests |-> fail_at]
    ELSE [ok |-> TRUE, requests |-> n]

\* vectors[i:i + batch_size], as the positions of its first and last record
BatchBounds(i, n) ==
    [first |-> i + 1, last |-> IF i + batch_size < n THEN i + batch_size ELSE n]

\* i // batch_size + 1
BatchNumber(i) == (i \div batch_size) + 1

\* a retry loop that gives up at the first record refused
RetryUntilFailure(vs, first, last, bad) ==
    LET stop == IF \E k \in first..last : vs[k].chunk_id \in bad
                THEN CHOOSE k \in first..last :
                        /\ vs[k].chunk_id \in bad
                        /\ \A j \in first..(k - 1) : vs[j].chunk_id \notin bad
                ELSE last
    IN  [j \in 1..(stop - first + 1) |->
            [chunk_id |-> vs[first + j - 1].chunk_id,
             ok |-> vs[first + j - 1].chunk_id \notin bad]]

\* the loop "for vector in batch": one upsert per record of the batch, in
\* order, each succeeding or not
RetryEach(vs, first, last, bad) ==
    [j \in 1..(last - first + 1) |->
        [chunk_id |-> vs[first + j - 1].chunk_id,
         ok |-> vs[first + j - 1].chunk_id \notin bad]]

\* a counter that counts the batch before its upsert
CountBatchAlways(count, size, batch_ok, retries) ==
    count + size + Cardinality({j \in 1..Len(retries) : retries[j].ok})

\* successful_uploads after one batch
CountBatch(count, size, batch_ok, retries) ==
    IF batch_ok THEN count + size
    ELSE count + Cardinality({j \in 1..Len(retries) : retries[j].ok})

(* -------------------------- smart_chunk_text -------------------------- *)

\* most sections one document text is built of
MaxSections == 3

\* len(chunk) > 10
MinChunkLen == 10

\* the default of the parameter chunk_size
DefaultChunkSize == 500

\* the chunk sizes tried: the default, and one near the sentence lengths
ChunkSizes == {12, DefaultChunkSize}

Rep(c, n) == [i \in 1..n |-> c]

\* section bodies: none, one sentence of 10, 11 and 15 characters, and two
\* sentences of 6 characters
Bodies ==
    { <<>>,
      Rep("a", 9) \o <<".">>,
      Rep("b", 10) \o <<".">>,
      Rep("c", 5) \o <<".", " ">> \o Rep("d", 5) \o <<"!">>,
      Rep("e", 14) \o <<"?">> }

\* a section of a document: a body, with or without a [marker] line
SectionChoices == [marked : BOOLEAN, body : Bodies]

\* the marker line of the i-th section
MarkerOf(i) == <<"[", ToString(i), "]">>

\* the text of a document made of the given sections, one per line
RECURSIVE TextFrom(_, _)
TextFrom(secs, i) ==
    IF i > Len(secs) THEN <<>>
    ELSE (IF secs[i].marked THEN MarkerOf(i) \o <<"\n">> ELSE <<>>)
         \o secs[i].body \o <<"\n", "\n">> \o TextFrom(secs, i + 1)

Texts ==
    { TextFrom(secs, 1) :
        secs \in UNION { [1..n -> SectionChoices] : n \in 0..MaxSections } }

\* re.sub(r'\s+', ' ', text)
RECURSIVE CollapseWhitespace(_)
CollapseWhitespace(s) ==
    IF s = <<>> THEN <<>>
    ELSE IF Head(s) \in Whitespace THEN <<" ">> \o CollapseWhitespace(LStrip(s))
    ELSE <<Head(s)>> \o CollapseWhitespace(Tail(s))

\* the first position from `from` on where s holds one of cs, or 0
FirstOf(s, cs, from) ==
    LET at == {i \in from..Len(s) : s[i] \in cs} IN
    IF at = {} THEN 0 ELSE CHOOSE i \in at : \A j \in at : i <= j

\* re.split(r'(\[.*?\])', text): the texts between the markers and the
\* markers themselves, in order
RECURSIVE SplitSections(_)
SplitSections(s) ==
    LET p == FirstOf(s, {"["}, 1)
        q == IF p = 0 THEN 0 ELSE FirstOf(s, {"]"}, p + 1)
    IN  IF q = 0 THEN <<s>>
        ELSE <<SubSeq(s, 1, p - 1), SubSeq(s, p, q)>>
             \o SplitSections(SubSeq(s, q + 1, Len(s)))

Punctuation == {".", "!", "?"}

\* the first position whose character ends a sentence and is followed by
\* whitespace, or 0
SentenceEnd(s) ==
    LET at == {i \in 1..(Len(s) - 1) :
                 s[i] \in Punctuation /\ s[i + 1] \in Whitespace} IN
    IF at = {} THEN 0 ELSE CHOOSE i \in at : \A j \in at : i <= j

\* re.split(r'(?<=[.!?])\s+', section)
RECURSIVE SplitSentences(_)
SplitSentences(s) ==
    LET e == SentenceEnd(s) IN
    IF e = 0 THEN <<s>>
    ELSE <<SubSeq(s, 1, e)>> \o SplitSentences(LStrip(SubSeq(s, e + 1, Len(s))))

\* the loop over the sentences of one section, from sentence k on: the
\* chunks appended, given the running chunk and the chunks so far
RECURSIVE Accumulate(_, _, _, _, _)
Accumulate(sentences, k, current, chunks, size) ==
    IF k > Len(sentences)
    THEN IF current # <<>> THEN Append(chunks, Strip(current)) ELSE chunks
    ELSE LET sentence == sentences[k] IN
         IF Len(current) + Len(sentence) <= size
         THEN Accumulate(sentences, k + 1,
                  IF current # <<>> THEN current \o <<" ">> \o sentence ELSE sentence,
                  chunks, size)
         ELSE Accumulate(sentences, k + 1, sentence,
                  IF current # <<>> THEN Append(chunks, Strip(current)) ELSE chunks,
                  size)

\* section.startswith('[') and section.endswith(']')
IsHeader(section) ==
    section # <<>> /\ Head(section) = "[" /\ section[Len(section)] = "]"

\* one iteration of the loop over the sections: the chunks it appends. A
\* header only sets current_chunk, which the next iteration overwrites
SectionChunks(section, size) ==
    IF Strip(section) = <<>> THEN <<>>
    ELSE IF IsHeader(section) THEN <<>>
    ELSE Accumulate(SplitSentences(section), 1, <<>>, <<>>, size)

RECURSIVE AllSectionChunks(_, _, _)
AllSectionChunks(sections, i, size) ==
    IF i > Len(sections) THEN <<>>
    ELSE SectionChunks(sections[i], size) \o AllSectionChunks(sections, i + 1, size)

\* the list chunks when the loop over the sections ends
CandidateChunks(text, size) ==
    AllSectionChunks(SplitSections(Strip(CollapseWhitespace(text))), 1, size)

\* chunk and len(chunk) >= 10
KeepChunkFromMinimum(chunk) == chunk # <<>> /\ Len(chunk) >= MinChunkLen

\* chunk and len(chunk) > 10
KeepChunk(chunk) == chunk # <<>> /\ Len(chunk) > MinChunkLen

\* the list comprehension that filters the chunks
FilterChunks(chunks) == SelectSeq(chunks, KeepChunk)

(* ------------------------------ actions ------------------------------- *)

Init ==
    /\ pc = "idle"
    /\ customer_issue = <<>>
    /\ context_chunks = <<>>
    /\ tone = "empathetic"
    /\ script = [i \in 1..ScriptLen |-> "ok"]
    /\ attempt = 0
    /\ last_error = <<>>
    /\ attempts = 0
    /\ calls = 0
    /\ waits = <<>>
    /\ result = <<>>
    /\ raised = FALSE
    /\ query = <<>>
    /\ top_k = 0
    /\ embed_outcome = "ok"
    /\ index_response = [ok |-> TRUE, matches |-> <<>>]
    /\ search_result = <<>>
    /\ search_raised = FALSE
    /\ get_embedding_calls = 0
    /\ embed_requests = 0
    /\ index_queries = 0
    /\ customer_message = <<>>
    /\ tone_answer = [kind |-> "none", content |-> <<>>]
    /\ detected_tone = <<>>
    /\ tone_raised = FALSE
    /\ doc = [exists |-> FALSE, blank |-> FALSE, n |-> 0]
    /\ embed_fail_at = 0
    /\ clock = [before |-> 11, after |-> 11, tick_at |-> 0]
    /\ fail_batches = {}
    /\ bad_records = {}
    /\ vectors = <<>>
    /\ batch_i = 0
    /\ successful_uploads = 0
    /\ batch_log = <<>>
    /\ store = {}
    /\ chunk_embeddings = 0
    /\ index_result = <<>>
    /\ index_error = <<>>
    /\ run = 1
    /\ first_ids = {}
    /\ first_store = {}
    /\ chunk_text = <<>>
    /\ chunk_size = DefaultChunkSize
    /\ candidates = <<>>
    /\ chunks_out = <<>>

\* generate_response_with_fallback is entered: lines 117-122
Call ==
    /\ pc = "idle"
    /\ \E req \in Requests, c \in Contexts, s \in Scripts :
        /\ customer_issue' = req.issue
        /\ context_chunks' = c
        /\ tone' = req.tone
        /\ script' = s
    /\ attempt' = 0
    /\ last_error' = <<>>
    /\ pc' = "loop"
    /\ UNCHANGED <<attempts, calls, waits, result, raised, search_vars, tone_vars, index_vars, chunk_vars>>

\* one iteration of the for loop: lines 124-143
Attempt ==
    /\ pc = "loop"
    /\ LoopRuns(attempt)
    /\ LET r == generate_response(context_chunks, script[calls + 1])
           clause == ExceptClause(r.cls)
       IN  /\ attempts' = attempts + 1
           /\ calls' = IF r.called THEN calls + 1 ELSE calls
           /\ IF r.ok
              THEN /\ result' = <<r.value>>
                   /\ pc' = "done"
                   /\ UNCHANGED <<attempt, last_error, waits, raised>>
              ELSE IF clause = "none"
              THEN /\ raised' = TRUE
                   /\ pc' = "done"
                   /\ UNCHANGED <<attempt, last_error, waits, result>>
              ELSE /\ last_error' = <<ErrorPrefix(clause)>> \o r.text
                   /\ waits' = SleepAfter(clause, attempt, waits)
                   /\ IF Breaks(clause)
                      THEN pc' = "fallback" /\ attempt' = attempt
                      ELSE pc' = "loop" /\ attempt' = attempt + 1
                   /\ UNCHANGED <<result, raised>>
    /\ UNCHANGED <<customer_issue, context_chunks, tone, script, search_vars, tone_vars, index_vars, chunk_vars>>

\* the loop is left by break or by exhaustion, and the fallback dict is
\* returned: lines 145-152
Fallback ==
    /\ pc = "fallback" \/ (pc = "loop" /\ ~LoopRuns(attempt))
    /\ result' = <<FallbackResult(last_error)>>
    /\ pc' = "done"
    /\ UNCHANGED <<customer_issue, context_chunks, tone, script, attempt,
                   last_error, attempts, calls, waits, raised, search_vars,
                   tone_vars, index_vars, chunk_vars>>

\* search_similar from entry to return: lines 170-205
Search ==
    /\ pc = "idle"
    /\ \E q \in Queries, k \in 0..MaxTopK, e \in EmbedOutcomes :
       \E ix \in IndexResponses(k) :
        LET r == search_similar(q, e, ix) IN
        /\ query' = q
        /\ top_k' = k
        /\ embed_outcome' = e
        /\ index_response' = ix
        /\ search_result' = r.result
        /\ search_raised' = r.raised
        /\ get_embedding_calls' = r.get_embedding_calls
        /\ embed_requests' = r.embed_requests
        /\ index_queries' = r.index_queries
    /\ pc' = "searched"
    /\ UNCHANGED <<gen_vars, tone_vars, index_vars, chunk_vars>>

\* analyze_tone from entry to return: lines 90-115
AnalyzeTone ==
    /\ pc = "idle"
    /\ \E m \in Messages, a \in ToneAnswers :
        LET r == analyze_tone(a) IN
        /\ customer_message' = m
        /\ tone_answer' = a
        /\ detected_tone' = r.tone
        /\ tone_raised' = r.raised
    /\ pc' = "toned"
    /\ UNCHANGED <<gen_vars, search_vars, index_vars, chunk_vars>>

\* index_documents up to the chunk list: lines 101-124
IndexStart ==
    /\ pc = "idle"
    /\ \E d \in Documents, c \in Clocks, fb \in SUBSET BatchNumbers,
          bad \in BadChoices :
       \E f \in {0, 1, d.n} :
        /\ doc' = d
        /\ clock' = c
        /\ fail_batches' = fb
        /\ bad_records' = bad
        /\ embed_fail_at' = f
        /\ IF SetupError(d) # <<>>
           THEN /\ index_error' =
                     <<IndexingFailure(SetupError(d)[1].cls, SetupError(d)[1].text)>>
                /\ pc' = "index_done"
           ELSE /\ index_error' = <<>>
                /\ pc' = "embedding"
    /\ UNCHANGED <<vectors, batch_i, successful_uploads, batch_log, store,
                   chunk_embeddings, index_result>>
    /\ UNCHANGED rerun_vars
    /\ UNCHANGED <<gen_vars, search_vars, tone_vars, chunk_vars>>

\* the loop that embeds every chunk and builds vectors: lines 126-137
EmbedChunks ==
    /\ pc = "embedding"
    /\ LET e == EmbedLoop(doc.n, embed_fail_at) IN
        /\ chunk_embeddings' = e.requests
        /\ IF e.ok
           THEN /\ vectors' = BuildVectors(doc.n, clock)
                /\ batch_i' = 0
                /\ pc' = "upserting"
                /\ UNCHANGED index_error
           ELSE /\ index_error' =
                     <<IndexingFailure("Exception", <<"Embedding generation failed">>)>>
                /\ pc' = "index_done"
                /\ UNCHANGED <<vectors, batch_i>>
    /\ UNCHANGED <<doc, embed_fail_at, clock, fail_batches, bad_records,
                   successful_uploads, batch_log, store, index_result>>
    /\ UNCHANGED rerun_vars
    /\ UNCHANGED <<gen_vars, search_vars, tone_vars, chunk_vars>>

\* one iteration of the batch loop: lines 143-160
UpsertBatch ==
    /\ pc = "upserting"
    /\ batch_i < Len(vectors)
    /\ LET b == BatchBounds(batch_i, Len(vectors))
           batch_ok == BatchNumber(batch_i) \notin fail_batches
           retries == IF batch_ok THEN <<>>
                      ELSE RetryEach(vectors, b.first, b.last, bad_records)
           written == IF batch_ok THEN b.first..b.last
                      ELSE {k \in b.first..b.last :
                               \E j \in 1..Len(retries) :
                                  /\ retries[j].ok
                                  /\ retries[j].chunk_id = vectors[k].chunk_id}
       IN  /\ batch_log' = Append(batch_log,
                  [first |-> b.first, last |-> b.last, ok |-> batch_ok,
                   retries |-> retries])
           /\ store' = store \cup {vectors[k].id : k \in written}
           /\ successful_uploads' =
                  CountBatch(successful_uploads, b.last - b.first + 1, batch_ok, retries)
    /\ batch_i' = batch_i + batch_size
    /\ UNCHANGED <<pc, doc, embed_fail_at, clock, fail_batches, bad_records,
                   vectors, chunk_embeddings, index_result, index_error>>
    /\ UNCHANGED rerun_vars
    /\ UNCHANGED <<gen_vars, search_vars, tone_vars, chunk_vars>>

\* the batch loop is over and the counter is returned: lines 162-163
IndexReturn ==
    /\ pc = "upserting"
    /\ batch_i >= Len(vectors)
    /\ index_result' = <<successful_uploads>>
    /\ pc' = "index_done"
    /\ UNCHANGED <<doc, embed_fail_at, clock, fail_batches, bad_records, vectors,
                   batch_i, successful_uploads, batch_log, store,
                   chunk_embeddings, index_error>>
    /\ UNCHANGED rerun_vars
    /\ UNCHANGED <<gen_vars, search_vars, tone_vars, chunk_vars>>

\* index_documents is called again on the same source once the first call
\* has returned: the clock reads the second the first call ended in or the
\* next one, and the index refuses the same upserts as before
IndexAgain ==
    /\ pc = "index_done"
    /\ run = 1
    /\ index_result # <<>>
    /\ \E later \in 0..1 :
          clock' = [before |-> clock.after + later,
                    after |-> clock.after + later, tick_at |-> 0]
    /\ run' = 2
    /\ first_ids' = {vectors[k].id : k \in 1..Len(vectors)}
    /\ first_store' = store
    /\ vectors' = <<>>
    /\ batch_i' = 0
    /\ successful_uploads' = 0
    /\ batch_log' = <<>>
    /\ chunk_embeddings' = 0
    /\ index_result' = <<>>
    /\ pc' = "embedding"
    /\ UNCHANGED <<doc, embed_fail_at, fail_batches, bad_records, store, index_error>>
    /\ UNCHANGED <<gen_vars, search_vars, tone_vars, chunk_vars>>

\* the steps of a generate_response_with_fallback call
GenNext == Call \/ Attempt \/ Fallback

\* smart_chunk_text from entry to return: lines 60-99
ChunkText ==
    /\ pc = "idle"
    /\ \E t \in Texts, size \in ChunkSizes :
        /\ chunk_text' = t
        /\ chunk_size' = size
        /\ candidates' = CandidateChunks(t, size)
        /\ chunks_out' = FilterChunks(CandidateChunks(t, size))
    /\ pc' = "chunked"
    /\ UNCHANGED <<gen_vars, search_vars, tone_vars, index_vars>>

\* the steps of an index_documents call
IndexNext == IndexStart \/ EmbedChunks \/ UpsertBatch \/ IndexReturn \/ IndexAgain

Next == GenNext \/ Search \/ AnalyzeTone \/ IndexNext \/ ChunkText

Spec == Init /\ [][Next]_vars

\* a generation call on its own. Every call blocks its caller until it
\* completes, so a call that has started takes its next step
FairGenSpec ==
    Init /\ [][GenNext]_vars /\ WF_vars(Attempt) /\ WF_vars(Fallback)

(* ------------------------------ claims -------------------------------- *)

ResultFields == {"response", "sources", "context_used", "model_used"}

\* every chunk of the context holds the keys generate_response reads
WellFormedContext(c) ==
    \A i \in 1..Len(c) : {"text", "chunk_id", "score"} \subseteq DOMAIN c[i]

\* what the i-th attempt of the call in progress met: the outcome of its
\* try block before the except clauses of generate_response
AttemptBody(i) == GenerateBody(context_chunks, script[i])

\* no attempt made so far returned a result
NoAttemptSucceeded == \A i \in 1..attempts : ~AttemptBody(i).ok

\* d occurs in s as a contiguous run
Contains(s, d) == \E i \in 0..(Len(s) - Len(d)) : SubSeq(s, i + 1, i + Len(d)) = d

\* C1: generate_response_with_fallback never raises to its caller: whatever
\* the issue, the context list, the tone and the provider's behaviour on
\* each attempt, the call ends by returning one dict that has exactly the
\* keys response, sources, context_used and model_used.
C1_NeverRaises ==
    /\ ~raised
    /\ pc = "done" => Len(result) = 1 /\ DOMAIN result[1] = ResultFields

\* a call that met a failing provider on every attempt, or a context
\* chunk without its text, has returned
C1_Witness ==
    /\ pc = "done"
    /\ Len(result) = 1
    /\ \A i \in 1..ScriptLen : script[i] # "ok"
    /\ ~WellFormedContext(context_chunks)

\* C2: when the provider fails exactly once with a rate-limit or a
\* connection error and succeeds on its next call, the call makes a second
\* attempt and returns that attempt's result, with model_used the real
\* model.
C2_RetrySucceeds ==
    ( /\ pc = "done"
      /\ WellFormedContext(context_chunks)
      /\ script[1] \in {"RateLimitError", "APIConnectionError"}
      /\ script[2] = "ok" )
    => /\ attempts = 2
       /\ Len(result) = 1
       /\ result[1].model_used = model

\* C3: when the provider raises a rate-limit error on every call, the call
\* sleeps 1 second and then 2 seconds (2^attempt after each attempt) and
\* only then returns the fallback result.
C3_BackoffOneThenTwo ==
    ( /\ pc = "done"
      /\ WellFormedContext(context_chunks)
      /\ \A i \in 1..ScriptLen : script[i] = "RateLimitError" )
    => /\ waits = <<1, 2>>
       /\ Len(result) = 1
       /\ result[1].model_used = "fallback"

\* C4: when an attempt fails with a connection error and the retry budget
\* is not used up, the call sleeps a fixed interval and makes another
\* attempt: it does not reach the fallback after one connection failure.
C4_ConnectionRetried ==
    ( /\ pc \in {"fallback", "done"}
      /\ WellFormedContext(context_chunks)
      /\ script[1] = "APIConnectionError" )
    => /\ attempts >= 2
       /\ Len(waits) >= 1
       /\ waits[1] = 1

\* the first attempt failed with an error that is neither a rate-limit
\* nor a connection error
FirstFailureOther ==
    /\ attempts >= 1
    /\ ~AttemptBody(1).ok
    /\ AttemptBody(1).cls \notin {"RateLimitError", "APIConnectionError"}

C6_FallbackResult ==
    (pc = "done" /\ Len(result) = 1) =>
        /\ NoAttemptSucceeded =>
            /\ result[1].sources = <<>>
            /\ result[1].context_used = 0
            /\ result[1].model_used = "fallback"
            /\ attempts >= 1
            /\ Contains(result[1].response, last_error)
            /\ Contains(result[1].response, AttemptBody(attempts).text)
        /\ result[1].model_used = "fallback" => NoAttemptSucceeded

\* the fallback was returned for a non-empty context after a connection
\* error
C6_Witness ==
    /\ pc = "done"
    /\ Len(result) = 1
    /\ result[1].model_used = "fallback"
    /\ Len(context_chunks) = MaxCtx
    /\ WellFormedContext(context_chunks)
    /\ script[1] = "APIConnectionError"

\* C7: every call makes at least 1 and at most 2 generation attempts, each
\* with at most one provider call, and a call that has started always
\* ends with a result.
C7_BoundedAttempts ==
    /\ [](attempts <= max_retries /\ calls <= attempts)
    /\ [](pc \in {"fallback", "done"} => attempts >= 1)
    /\ [](pc = "loop" => <>(pc = "done" /\ Len(result) = 1))

\* a call has returned after its provider failed
C7_Witness ==
    /\ pc = "done"
    /\ attempts >= 1
    /\ calls >= 1
    /\ script[1] = "RateLimitError"

\* C8: a successful generation over a context of n chunks returns n
\* sources, the i-th naming the chunk_id of the i-th chunk and its score to
\* two decimals, and context_used = n.
C8_SourcesFollowContext ==
    (pc = "done" /\ Len(result) = 1 /\ result[1].model_used = model) =>
        LET n == Len(context_chunks)
            src == result[1].sources
        IN  /\ Len(src) = n
            /\ result[1].context_used = n
            /\ \A i \in 1..n :
                /\ src[i][2] = context_chunks[i].chunk_id
                /\ 10 * src[i][4] - context_chunks[i].score \in -5..5

\* a generation succeeded over two different chunks
C8_Witness ==
    /\ pc = "done"
    /\ Len(result) = 1
    /\ result[1].model_used = model
    /\ Len(context_chunks) = 2
    /\ context_chunks[1] # context_chunks[2]

\* the matches of the index's answer that score above 0.5, in its order
KeptMatches == SelectSeq(index_response.matches, LAMBDA m : m.score > 500)

\* C9: every match search_similar returns scores strictly above 0.5, the
\* returned matches are the index's matches above 0.5 in the index's order
\* (non-increasing score), and there are at most top_k of them.
C9_SearchThreshold ==
    pc = "searched" =>
        /\ \A i \in 1..Len(search_result) : search_result[i].score > 500
        /\ \A i \in 1..(Len(search_result) - 1) :
              search_result[i].score >= search_result[i + 1].score
        /\ Len(search_result) <= top_k
        /\ \/ search_result = <<>>
           \/ /\ Len(search_result) = Len(KeptMatches)
              /\ \A i \in 1..Len(KeptMatches) :
                    /\ search_result[i].score = KeptMatches[i].score
                    /\ search_result[i].text = KeptMatches[i].metadata.text
                    /\ search_result[i].chunk_id = KeptMatches[i].metadata.chunk_id

\* a search returned a match although the index also answered with a
\* match of score exactly 0.5
C9_Witness ==
    /\ pc = "searched"
    /\ search_result # <<>>
    /\ \E i \in 1..Len(index_response.matches) :
          /\ index_response.matches[i].score = 500
          /\ {"text", "chunk_id"} \subseteq DOMAIN index_response.matches[i].metadata

\* the query is empty or holds whitespace only
BlankQuery == \A i \in 1..Len(query) : query[i] \in Whitespace

\* C10: search_similar with an empty or whitespace-only query returns the
\* empty list at once: get_embedding is not entered, the embedding provider
\* is not called and the index is not queried.
C10_BlankQueryNoCalls ==
    (pc = "searched" /\ BlankQuery) =>
        /\ search_result = <<>>
        /\ get_embedding_calls = 0
        /\ embed_requests = 0
        /\ index_queries = 0

\* a whitespace-only query was searched while the provider and the index
\* were ready to answer with a relevant match
C10_Witness ==
    /\ pc = "searched"
    /\ Len(query) = MaxQueryLen
    /\ BlankQuery
    /\ embed_outcome = "ok"
    /\ index_response.ok
    /\ KeptMatches # <<>>

\* C11: search_similar never propagates a failure: when the embedding call
\* fails or the index query fails, the call returns the empty list and does
\* not raise.
C11_SearchNeverRaises ==
    pc = "searched" =>
        /\ ~search_raised
        /\ (~BlankQuery /\ (embed_outcome = "fail" \/ ~index_response.ok))
              => search_result = <<>>

\* a search whose embedding succeeded met a failing index query
C11_Witness ==
    /\ pc = "searched"
    /\ ~BlankQuery
    /\ embed_outcome = "ok"
    /\ ~index_response.ok
    /\ index_queries = 1
    /\ search_result = <<>>

ToneLabels == {"frustrated", "urgent", "calm", "confused", "neutral"}

\* the provider's answer, trimmed and lower-cased, is one of the labels
AnswerIsLabel ==
    /\ tone_answer.kind = "text"
    /\ Len(StripLower(tone_answer.content)) = 1
    /\ StripLower(tone_answer.content)[1] \in ToneLabels

\* C12: analyze_tone returns one of frustrated, urgent, calm, confused,
\* neutral whatever the message and the provider do: an answer outside the
\* five labels gives neutral, and a failing provider call gives neutral
\* without raising.
C12_ToneInClosedSet ==
    pc = "toned" =>
        /\ ~tone_raised
        /\ Len(detected_tone) = 1
        /\ detected_tone[1] \in ToneLabels
        /\ ~AnswerIsLabel => detected_tone = <<"neutral">>

\* the provider answered with a word that is no label
C12_Witness ==
    /\ pc = "toned"
    /\ tone_answer.kind = "text"
    /\ tone_answer.content = <<"angry", "\n">>
    /\ detected_tone = <<"neutral">>

\* the run got past the checks on the file and its chunks
SetupPassed == doc.exists /\ ~doc.blank /\ doc.n > 0

\* the positions in vectors of the records whose upsert succeeded, in a
\* batch or one by one
UpsertedPositions ==
    UNION { IF batch_log[b].ok
            THEN batch_log[b].first..batch_log[b].last
            ELSE { batch_log[b].first + j - 1 :
                     j \in {i \in 1..Len(batch_log[b].retries) :
                               batch_log[b].retries[i].ok} }
          : b \in 1..Len(batch_log) }

\* C13: the upserts of a run over N records are made as ceil(N/100)
\* successive batches of consecutive records, 100 in each but the last;
\* after a batch upsert that fails, each record of that batch and no other
\* is upserted alone, in order, and only the records refused again are
\* missing from the index; the other batches are issued all the same.
C13_BatchesAndRetries ==
    LET n == Len(vectors) IN
    /\ \A b \in 1..Len(batch_log) :
          LET e == batch_log[b] IN
          /\ e.first = 100 * (b - 1) + 1
          /\ e.last = (IF 100 * b < n THEN 100 * b ELSE n)
          /\ e.ok => e.retries = <<>>
          /\ ~e.ok =>
                /\ Len(e.retries) = e.last - e.first + 1
                /\ \A j \in 1..Len(e.retries) :
                      /\ e.retries[j].chunk_id = vectors[e.first + j - 1].chunk_id
                      /\ e.retries[j].ok = (e.retries[j].chunk_id \notin bad_records)
          /\ \A k \in e.first..e.last :
                (vectors[k].id \in store) =
                    (e.ok \/ vectors[k].chunk_id \notin bad_records)
    /\ (pc = "index_done" /\ index_result # <<>>) =>
          /\ Len(batch_log) = (n + 99) \div 100
          /\ \A b \in 1..Len(batch_log) : batch_log[b].ok = (b \notin fail_batches)

\* 250 records were indexed, the second batch failed and one of its
\* records was refused again
C13_Witness ==
    /\ pc = "index_done"
    /\ Len(vectors) = 250
    /\ fail_batches = {2}
    /\ bad_records = {150}
    /\ Len(batch_log) = 3
    /\ index_result = <<249>>

\* C14: the integer index_documents returns is the number of records whose
\* upsert succeeded, in a batch or in a retry; it lies between 0 and the
\* number of chunks; and failing upserts alone never make the call raise.
C14_ReturnedCount ==
    pc = "index_done" =>
        /\ index_result # <<>> =>
              /\ index_result[1] = Cardinality(UpsertedPositions)
              /\ index_result[1] >= 0
              /\ index_result[1] <= doc.n
        /\ (SetupPassed /\ embed_fail_at \notin 1..doc.n) =>
              index_error = <<>> /\ index_result # <<>>

\* every batch upsert failed and a whole batch was refused again, and the
\* call returned the count of what was stored
C14_Witness ==
    /\ pc = "index_done"
    /\ doc.n = MaxChunks
    /\ fail_batches = BatchNumbers
    /\ bad_records = 100..199
    /\ index_error = <<>>
    /\ index_result = <<MaxChunks - 100>>

\* C15: index_documents fails with a NotFound error for an absent path,
\* with an Empty error for blank content and with an EmptyResult error for
\* zero chunks; the caller receives the error as the kind that was raised,
\* and no embedding call and no upsert is made.
C15_SetupErrorsSurface ==
    (pc = "index_done" /\ ~SetupPassed) =>
        /\ index_error # <<>>
        /\ index_error[1].cls = SetupError(doc)[1].cls
        /\ chunk_embeddings = 0
        /\ batch_log = <<>>

\* C19: when the embedding request of a chunk fails the call raises, the
\* request is not repeated and no upsert has been made: every chunk is
\* embedded before the first upsert and the index is left as it was.
C19_EmbeddingFailureIsFatal ==
    /\ (pc = "index_done" /\ SetupPassed /\ embed_fail_at \in 1..doc.n) =>
          /\ index_error # <<>>
          /\ index_result = <<>>
          /\ chunk_embeddings = embed_fail_at
          /\ batch_log = <<>>
          /\ store = {}
    /\ batch_log # <<>> => chunk_embeddings = doc.n

\* the embedding of the last of 250 chunks failed
C19_Witness ==
    /\ pc = "index_done"
    /\ doc.n = MaxChunks
    /\ embed_fail_at = MaxChunks
    /\ chunk_embeddings = MaxChunks
    /\ index_error # <<>>

\* C20: the ids given to the records of one run are pairwise distinct,
\* whatever the clock returns during the run.
C20_IdsDistinctInRun ==
    Cardinality({vectors[k].id : k \in 1..Len(vectors)}) = Len(vectors)

\* the clock went back during a run over more than ten chunks
C20_Witness ==
    /\ Len(vectors) > 10
    /\ clock.tick_at > 0
    /\ clock.after < clock.before
    /\ vectors[2].id # vectors[12].id

\* the lengths of the chunks of a list, in order
ChunkLengths(chunks) == [k \in 1..Len(chunks) |-> Len(chunks[k])]

\* C16 as stated: a candidate chunk is discarded if and only if its length is
\* below 10 characters, so the returned chunks are exactly the candidates of
\* length 10 or more, in order.
C16_DiscardedBelowTen ==
    pc = "chunked" =>
        chunks_out = SelectSeq(candidates, LAMBDA c : Len(c) >= 10)

\* C16 amended: a candidate chunk is discarded if and only if its length is
\* at most 10 characters, so the returned chunks are exactly the candidates of
\* length 11 or more, in order (and none is shorter than 10).
C16_DiscardedUpToTen ==
    pc = "chunked" =>
        /\ chunks_out = SelectSeq(candidates, LAMBDA c : Len(c) >= 11)
        /\ \A k \in 1..Len(chunks_out) : Len(chunks_out[k]) >= 10

\* a text was chunked into candidates of 10 and of 11 characters, and only
\* the latter was returned
C16_Witness ==
    /\ pc = "chunked"
    /\ ChunkLengths(candidates) = <<10, 11>>
    /\ ChunkLengths(chunks_out) = <<11>>

\* C17: every returned chunk has length at most chunk_size, except a chunk
\* that is one sentence alone; a chunk joined from two or more sentences never
\* exceeds chunk_size.
C17_ChunkWithinSize ==
    pc = "chunked" =>
        \A k \in 1..Len(chunks_out) :
            \/ Len(chunks_out[k]) <= chunk_size
            \/ SentenceEnd(chunks_out[k]) = 0

\* the texts of three marked sections with distinct, non-empty bodies
ThreeMarkedSections ==
    { TextFrom(secs, 1) :
        secs \in { f \in [1..3 -> SectionChoices] :
                    /\ \A i \in 1..3 : f[i].marked /\ f[i].body # <<>>
                    /\ \A i, j \in 1..3 : i # j => f[i].body # f[j].body } }

\* p is a prefix of s
IsPrefix(p, s) == Len(p) <= Len(s) /\ SubSeq(s, 1, Len(p)) = p

\* C18: a document of three bracketed section markers, each followed by a
\* distinct body, is chunked into at least three chunks, and each section's
\* marker text is the prefix of a returned chunk.
C18_MarkersRetained ==
    (pc = "chunked" /\ chunk_text \in ThreeMarkedSections) =>
        /\ Len(chunks_out) >= 3
        /\ \A i \in 1..3 :
               \E k \in 1..Len(chunks_out) : IsPrefix(MarkerOf(i), chunks_out[k])

\* the second index_documents call on the source has returned
SecondRunReturned == pc = "index_done" /\ run = 2 /\ index_result # <<>>

\* C21: two successive index_documents runs on the same source generate
\* disjoint identifier sets, so the second run overwrites no record of the
\* first and the record count of the index grows by the count the second run
\* stored.
C21_RunsDisjoint ==
    SecondRunReturned =>
        /\ {vectors[k].id : k \in 1..Len(vectors)} \cap first_ids = {}
        /\ first_store \subseteq store
        /\ Cardinality(store) = Cardinality(first_store) + index_result[1]

\* the index was queried and answered, so the loop over the matches ran
MatchesFormatted == pc = "searched" /\ index_queries = 1 /\ index_response.ok

\* a match above 0.5 lacks the text or the chunk identifier metadata
MalformedAboveThreshold ==
    \E i \in 1..Len(index_response.matches) :
        /\ index_response.matches[i].score > 500
        /\ ~({"text", "chunk_id"} \subseteq DOMAIN index_response.matches[i].metadata)

\* C22: if any match with score above 0.5 lacks the text or chunk identifier
\* metadata, search_similar returns the empty sequence, the well-formed
\* matches above the threshold that preceded it included; a malformed match
\* at or below 0.5 has no effect: without a malformed match above 0.5 every
\* match above 0.5 is returned, in order.
C22_MalformedAllOrNothing ==
    MatchesFormatted =>
        /\ MalformedAboveThreshold => search_result = <<>>
        /\ ~MalformedAboveThreshold =>
              /\ Len(search_result) = Len(KeptMatches)
              /\ \A i \in 1..Len(KeptMatches) :
                    /\ search_result[i].score = KeptMatches[i].score
                    /\ search_result[i].text = KeptMatches[i].metadata.text
                    /\ search_result[i].chunk_id = KeptMatches[i].metadata.chunk_id

\* the index answered with a well-formed match of score 0.9 followed by a
\* match of score 0.501 without text, and the search returned nothing
C22_Witness ==
    /\ MatchesFormatted
    /\ Len(index_response.matches) = 2
    /\ index_response.matches[1].score = 900
    /\ {"text", "chunk_id"} \subseteq DOMAIN index_response.matches[1].metadata
    /\ index_response.matches[2].score = 501
    /\ "text" \notin DOMAIN index_response.matches[2].metadata
    /\ search_result = <<>>
    /\ ~search_raised

====
